---- MODULE Spec2Model ----
(***************************************************************************)
(* State-machine model of GPTCrawler (src/gpt_crawler_core.py): the crawl  *)
(* coroutine, crawl_page, the browser life cycle and the stop() request    *)
(* that another thread (CrawlerThread.stop, src/main.py) may issue at any  *)
(* moment; matches_pattern on its own (PatternSpec); and the Start and    *)
(* Stop controls of CrawlerGUI (GuiSpec, src/main.py).                     *)
(*                                                                         *)
(* A URL is a sequence of tokens: the scheme+host, the path segments, and, *)
(* when it has a fragment, the token "#" followed by the fragment.         *)
(***************************************************************************)
EXTENDS FiniteSets, Integers, Sequences, TLC

VARIABLES
  site,           \* the web site the fetches are served from
  start_url,      \* crawl() arguments
  url_pattern,
  max_pages,
  selector,
  remove_selectors,
  browser,        \* self.browser: "none" (None), "open", "closed"
  visited_urls,   \* self.visited_urls
  results,        \* self.results
  running,        \* self.running
  urls_to_visit,  \* local of crawl()
  url,            \* local of crawl(): the URL crawl_page is working on
  pc,             \* position of the crawl() coroutine
  outcome,        \* how the run left its main loop / try block
  written,        \* the documents written to the output file in this run
  fetchLog,       \* the page.goto calls completed in this run
  failure,        \* where the exception that ended the try block was raised
  stopAt,         \* where the run was at the first stop() since its start request
  lateFetches,    \* crawl_page calls begun after a stop() of this run
  faults,         \* failures injected in this run
  runs,           \* crawl() calls so far on this engine
  start_button,   \* CrawlerGUI: the Start button is enabled
  stop_button,    \* CrawlerGUI: the Stop button is enabled
  threads,        \* the CrawlerThreads created so far; crawler_thread is the last
  arg_url,        \* arguments and return value of a call of matches_pattern
  arg_pattern,
  ret

vars == <<site, start_url, url_pattern, max_pages, selector, remove_selectors, browser, visited_urls,
          results, running, urls_to_visit, url, pc, outcome, written,
          fetchLog, failure, stopAt, lateFetches, faults, runs,
          start_button, stop_button, threads, arg_url, arg_pattern, ret>>

----------------------------------------------------------------------------
(* Bounds *)

MaxPagesCap == 5
MaxFaults == 1
MaxRuns == 2
MaxUrlLen == 5
MaxPatLen == 3
MaxThreads == 3

----------------------------------------------------------------------------
(* The URLs and the sites *)

Seed == <<"a.com", "docs">>
D1 == <<"a.com", "docs", "p1">>
D2 == <<"a.com", "docs", "p2">>
D3 == <<"a.com", "docs", "p3">>
D4 == <<"a.com", "docs", "p4">>
D1Frag == <<"a.com", "docs", "p1", "#", "s">>
Blog == <<"a.com", "blog">>
Ext == <<"b.com", "y">>

\* a relative reference: no scheme and no host
Relative == <<"docs", "p1">>

NoUrl == <<>>

Origins == {"a.com", "b.com"}

\* the texts the Start URL field may hold
StartUrls == {Seed, Relative, NoUrl}

Sites == {"e2e", "five", "frag"}

Patterns == {<<>>, <<"a.com", "docs">>}

\* the hrefs of the anchors of the page at u
Links(s, u) ==
  CASE s = "e2e" /\ u = Seed -> {D1, D2, Ext, Blog}
    [] s = "e2e" /\ u = D1 -> {Seed, D2}
    [] s = "e2e" /\ u = D2 -> {D1, Blog}
    [] s = "e2e" /\ u = Blog -> {D3, Ext}
    [] s = "five" /\ u = Seed -> {D1, D2}
    [] s = "five" /\ u = D1 -> {D3, Seed}
    [] s = "five" /\ u = D2 -> {D3}
    [] s = "five" /\ u = D3 -> {D4}
    [] s = "frag" /\ u = Seed -> {D1, D1Frag, Ext}
    [] s = "frag" /\ u = D1 -> {Seed, D1Frag}
    [] s = "frag" /\ u = D1Frag -> {Seed, D1}
    [] OTHER -> {}

Title(u) == u[Len(u)]

\* the pattern, the CSS selector and the remove selectors of a crawl
CrawlConfigs ==
  {[pattern |-> <<>>, selector |-> "", remove |-> <<>>],
   [pattern |-> <<"a.com", "docs">>, selector |-> "main", remove |-> <<"aside">>]}

\* The document of the page at u: the elements under body in document
\* order, each with its tag, its own text and its child elements.  A text
\* is a sequence of tokens, words and the white space " " and "\n".
PageDom(u) ==
  << [tag |-> "nav", text |-> <<"menu", " ">>, kids |-> <<>>],
     [tag |-> "main", text |-> <<"\n", " ", Title(u), " ">>,
      kids |-> << [tag |-> "aside", text |-> <<"ad">>, kids |-> <<>>] >>],
     [tag |-> "main", text |-> <<"more", " ", "\n">>, kids |-> <<>>] >>

----------------------------------------------------------------------------
(* Pure functions *)

StartsWith(u, p) == Len(p) <= Len(u) /\ SubSeq(u, 1, Len(p)) = p

MatchAll(u, pattern) == TRUE

MatchExact(u, pattern) == pattern = <<>> \/ u = pattern

matches_pattern(u, pattern) ==
  IF pattern = <<>> THEN TRUE ELSE StartsWith(u, pattern)

netloc(u) == u[1]

\* page.goto navigates to an absolute URL only
IsAbsolute(u) == u # <<>> /\ u[1] \in Origins

\* normalized form of a URL: scheme+host+path+query, fragment stripped.
\* No code computes it: the crawler compares the raw strings.  It is used
\* only to state the normalized-equality property.
StripFragment(u) ==
  LET hashes == {i \in 1..Len(u) : u[i] = "#"}
  IN IF hashes = {} THEN u
     ELSE SubSeq(u, 1, (CHOOSE i \in hashes : \A j \in hashes : i <= j) - 1)

IsSpace(t) == t \in {" ", "\n"}

RECURSIVE Concat(_)
Concat(texts) ==
  IF texts = <<>> THEN <<>> ELSE Head(texts) \o Concat(Tail(texts))

RECURSIVE Join(_, _)
Join(texts, sep) ==
  IF Len(texts) <= 1 THEN Concat(texts)
  ELSE Head(texts) \o sep \o Join(Tail(texts), sep)

\* el.textContent: the text of the element and of its descendants
RECURSIVE textContent(_)
textContent(el) ==
  el.text \o Concat([i \in DOMAIN el.kids |-> textContent(el.kids[i])])

\* the elements of a document in document order
RECURSIVE Flatten(_)
Flatten(dom) ==
  IF dom = <<>> THEN <<>>
  ELSE <<Head(dom)>> \o Flatten(Head(dom).kids) \o Flatten(Tail(dom))

query_selector_all(dom, sel) ==
  LET Matches(el) == el.tag = sel IN SelectSeq(Flatten(dom), Matches)

\* str.strip
RECURSIVE strip(_)
strip(t) ==
  IF t = <<>> THEN t
  ELSE IF IsSpace(t[1]) THEN strip(Tail(t))
  ELSE IF IsSpace(t[Len(t)]) THEN strip(SubSeq(t, 1, Len(t) - 1))
  ELSE t

\* ' '.join(content.split())
RECURSIVE Squeeze(_)
Squeeze(t) ==
  IF t = <<>> THEN <<>>
  ELSE IF ~IsSpace(t[1]) THEN <<t[1]>> \o Squeeze(Tail(t))
  ELSE IF Len(t) > 1 /\ IsSpace(t[2]) THEN Squeeze(Tail(t))
  ELSE <<" ">> \o Squeeze(Tail(t))

collapse(t) == Squeeze(strip(t))

\* process_page without its except branch; rem is accepted and not used
process_page(dom, sel, rem) ==
  LET elements == query_selector_all(dom, sel)
      NonEmpty(el) == textContent(el) # <<>>
      kept == SelectSeq(elements, NonEmpty)
      contents == [i \in DOMAIN kept |-> strip(textContent(kept[i]))]
      content == IF sel # ""
                 THEN Join(contents, <<"\n", "\n">>)
                 ELSE Concat([i \in DOMAIN dom |-> textContent(dom[i])])
  IN collapse(content)

AllLinks(u, links) == links

filtered_links(u, links) == {l \in links : netloc(l) = netloc(u)}

LoopCondOffByOne(frontier, visited, cap, run) ==
  frontier # {} /\ Cardinality(visited) <= cap /\ run

LoopCondDeaf(frontier, visited, cap, run) ==
  frontier # {} /\ Cardinality(visited) < cap

LoopCond(frontier, visited, cap, run) ==
  frontier # {} /\ Cardinality(visited) < cap /\ run

OfferAll(frontier, new_urls, visited) == frontier \cup new_urls

\* urls_to_visit.update(set(new_urls) - self.visited_urls)
Offer(frontier, new_urls, visited) == frontier \cup (new_urls \ visited)

PopKeep(frontier, u) == frontier

Pop(frontier, u) == frontier \ {u}

LeaveOpen(b) == b

close_browser(b) == IF b # "none" THEN "closed" ELSE b

DumpTwice(w, res) == Append(Append(w, res), res)

Dump(w, res) == Append(w, res)

\* the string process_page returns from its except branch
ErrorContent == <<"Error processing page">>

PageRecord(u, content) == [url |-> u, title |-> Title(u), content |-> content]

AllUrls == {Seed, D1, D2, D3, D4, D1Frag, Blog, Ext}

Extractions == {<<c.selector, c.remove>> : c \in CrawlConfigs}

\* what process_page returns for each page under each selector and list of
\* remove selectors, tabulated
Content ==
  [u \in AllUrls |-> [x \in Extractions |-> process_page(PageDom(u), x[1], x[2])]]

AppendBeforeGoto(res, u, o, content) ==
  Append(res, PageRecord(u, IF o = "extract_error" THEN ErrorContent ELSE content))

AppendUnlessRaised(res, u, o, content) ==
  IF o \in {"goto_error", "extract_error"} THEN res
  ELSE Append(res, PageRecord(u, content))

\* crawl_page, lines 61-75, for the outcome o of the page: nothing is appended
\* when goto or title raised; process_page returns its error string when the
\* extraction raised
append_result(res, u, o, content) ==
  IF o = "goto_error" THEN res
  ELSE Append(res, PageRecord(u, IF o = "extract_error" THEN ErrorContent ELSE content))

MarkBeforePatternCheck(visited, u, pattern) == visited \cup {u}

\* crawl, lines 136-143: the two skips, then visited_urls.add(url)
mark_visited(visited, u, pattern) ==
  IF u \in visited \/ ~matches_pattern(u, pattern) THEN visited
  ELSE visited \cup {u}

\* crawl, lines 136-140
Skipped(visited, u, pattern) == u \in visited \/ ~matches_pattern(u, pattern)

----------------------------------------------------------------------------
(* State machine *)

\* GPTCrawler.__init__, and what a crawl has not touched yet
EngineInit ==
  /\ site \in Sites
  /\ start_url = Seed
  /\ url_pattern = <<>>
  /\ max_pages = 10
  /\ selector = ""
  /\ remove_selectors = <<>>
  /\ browser = "none"
  /\ visited_urls = {}
  /\ results = <<>>
  /\ running = TRUE
  /\ urls_to_visit = {}
  /\ url = NoUrl
  /\ pc = "idle"
  /\ outcome = "none"
  /\ written = <<>>
  /\ fetchLog = <<>>
  /\ failure = "none"
  /\ stopAt = <<>>
  /\ lateFetches = 0
  /\ faults = 0
  /\ runs = 0

shell == <<start_button, stop_button, threads>>
call == <<arg_url, arg_pattern, ret>>

\* CrawlerGUI.__init__
ShellInit ==
  /\ start_button = TRUE
  /\ stop_button = FALSE
  /\ threads = <<>>

NoCall ==
  /\ arg_url = <<>>
  /\ arg_pattern = <<>>
  /\ ret = <<>>

Init ==
  /\ ShellInit
  /\ NoCall
  /\ EngineInit

config == <<site, start_url, url_pattern, max_pages, selector, remove_selectors>>
engine == <<browser, visited_urls, results, running>>
locals == <<urls_to_visit, url>>
history == <<written, fetchLog, failure, stopAt, lateFetches, faults, runs>>

stopRequested == stopAt # <<>>

\* start_crawler builds the configuration and CrawlerThread.run calls
\* crawl(**config)
StartCrawl ==
  /\ UNCHANGED <<shell, call>>
  /\ pc \in {"idle", "done"}
  /\ runs < MaxRuns
  /\ \E c \in CrawlConfigs, m \in 1..MaxPagesCap :
       /\ url_pattern' = c.pattern
       /\ selector' = c.selector
       /\ remove_selectors' = c.remove
       /\ max_pages' = m
  /\ \E s \in StartUrls :
       /\ s # <<>>            \* start_crawler returns on an empty Start URL
       /\ start_url' = s
  /\ pc' = "starting"
  /\ outcome' = "none"
  /\ written' = <<>>
  /\ fetchLog' = <<>>
  /\ failure' = "none"
  /\ stopAt' = <<>>
  /\ lateFetches' = 0
  /\ faults' = 0
  /\ runs' = runs + 1
  /\ UNCHANGED <<site, engine, locals>>

FrontierFromProbe(start) == filtered_links(start, Links(site, start))

\* crawl, line 131
InitialFrontier(start) == {start}

\* GPTCrawler.stop, from any thread at any moment
Stop ==
  /\ UNCHANGED <<shell, call>>
  /\ running' = FALSE
  /\ stopAt' = IF stopAt = <<>> /\ pc \notin {"idle", "done"}
               THEN <<pc, Cardinality(visited_urls)>>
               ELSE stopAt
  /\ UNCHANGED <<config, browser, visited_urls, results, locals, pc, outcome,
                 written, fetchLog, failure, lateFetches, faults, runs>>

\* crawl, lines 108-111
Begin ==
  /\ UNCHANGED <<shell, call>>
  /\ pc = "starting"
  /\ running' = TRUE
  /\ visited_urls' = {}
  /\ results' = <<>>
  /\ pc' = "init"
  /\ UNCHANGED <<config, browser, locals, outcome, history>>

Raise(where) ==
  /\ outcome' = "Failed"
  /\ failure' = where
  /\ pc' = "finally"

\* crawl, lines 115-117: init_browser when there is none, then new_page
OpenProbe ==
  /\ UNCHANGED <<shell, call>>
  /\ pc = "init"
  /\ \/ /\ browser = "none"
        /\ browser' = "open"
        /\ pc' = "probe"
        /\ UNCHANGED <<outcome, failure, faults>>
     \/ /\ browser = "none"
        /\ faults < MaxFaults
        /\ faults' = faults + 1
        /\ Raise("init_browser")
        /\ UNCHANGED browser
     \/ /\ browser = "open"
        /\ pc' = "probe"
        /\ UNCHANGED <<browser, outcome, failure, faults>>
     \/ /\ browser = "closed"
        /\ Raise("new_page")
        /\ UNCHANGED <<browser, faults>>
  /\ UNCHANGED <<config, visited_urls, results, running, locals, written,
                 fetchLog, stopAt, lateFetches, runs>>

\* crawl, lines 118-131: the title fetch of the seed, then the frontier
TitleProbe ==
  /\ UNCHANGED <<shell, call>>
  /\ pc = "probe"
  /\ \/ /\ ~IsAbsolute(start_url)
        /\ Raise("invalid_url")
        /\ UNCHANGED <<fetchLog, urls_to_visit, faults>>
     \/ /\ IsAbsolute(start_url)
        /\ fetchLog' = Append(fetchLog, [url |-> start_url, kind |-> "probe", res |-> "ok"])
        /\ urls_to_visit' = InitialFrontier(start_url)
        /\ pc' = "loop"
        /\ UNCHANGED <<outcome, failure, faults>>
     \/ /\ IsAbsolute(start_url)
        /\ faults < MaxFaults
        /\ faults' = faults + 1
        /\ fetchLog' = Append(fetchLog, [url |-> start_url, kind |-> "probe", res |-> "goto_error"])
        /\ Raise("goto")
        /\ UNCHANGED urls_to_visit
  /\ UNCHANGED <<config, engine, url, written, stopAt, lateFetches, runs>>

\* crawl, lines 133-143: one test of the loop condition and, when it holds,
\* the pop and the two skips
LoopStep ==
  /\ UNCHANGED <<shell, call>>
  /\ pc = "loop"
  /\ IF LoopCond(urls_to_visit, visited_urls, max_pages, running)
     THEN \E u \in urls_to_visit :
            /\ urls_to_visit' = Pop(urls_to_visit, u)
            /\ visited_urls' = mark_visited(visited_urls, u, url_pattern)
            /\ IF Skipped(visited_urls, u, url_pattern)
               THEN UNCHANGED <<url, pc, lateFetches>>
               ELSE /\ url' = u
                    /\ pc' = "page"
                    /\ lateFetches' = lateFetches + (IF stopRequested THEN 1 ELSE 0)
            /\ UNCHANGED outcome
     ELSE /\ outcome' = IF running THEN "Completed" ELSE "Stopped"
          /\ pc' = "write"
          /\ UNCHANGED <<visited_urls, urls_to_visit, url, lateFetches>>
  /\ UNCHANGED <<config, browser, results, running, written, fetchLog,
                 failure, stopAt, faults, runs>>

PageOutcomes == {"ok", "goto_error", "extract_error", "links_error"}

\* crawl_page, lines 56-96, and crawl, line 146
CrawlPage ==
  /\ UNCHANGED <<shell, call>>
  /\ pc = "page"
  /\ \E o \in PageOutcomes :
       /\ o # "ok" => faults < MaxFaults
       /\ faults' = faults + (IF o = "ok" THEN 0 ELSE 1)
       /\ results' = append_result(results, url, o,
                         Content[url][<<selector, remove_selectors>>])
       /\ LET new_urls == IF o \in {"ok", "extract_error"}
                          THEN filtered_links(url, Links(site, url))
                          ELSE {}
          IN urls_to_visit' = Offer(urls_to_visit, new_urls, visited_urls)
       /\ fetchLog' = Append(fetchLog, [url |-> url, kind |-> "page", res |-> o])
  /\ url' = NoUrl
  /\ pc' = "loop"
  /\ UNCHANGED <<config, browser, visited_urls, running, outcome, written,
                 failure, stopAt, lateFetches, runs>>

\* crawl, lines 148-169
WriteResult ==
  /\ UNCHANGED <<shell, call>>
  /\ pc = "write"
  /\ \/ /\ written' = Dump(written, results)
        /\ pc' = "finally"
        /\ UNCHANGED <<outcome, failure, faults>>
     \/ /\ faults < MaxFaults
        /\ faults' = faults + 1
        /\ Raise("write")
        /\ UNCHANGED written
  /\ UNCHANGED <<config, engine, locals, fetchLog, stopAt, lateFetches, runs>>

\* crawl, lines 171-175
Finally ==
  /\ UNCHANGED <<shell, call>>
  /\ pc = "finally"
  /\ running' = FALSE
  /\ browser' = close_browser(browser)
  /\ pc' = "done"
  /\ UNCHANGED <<config, visited_urls, results, locals, outcome, history>>

EngineStep ==
  \/ Begin
  \/ OpenProbe
  \/ TitleProbe
  \/ LoopStep
  \/ CrawlPage
  \/ WriteResult
  \/ Finally

Next ==
  \/ StartCrawl
  \/ Stop
  \/ EngineStep

Spec == Init /\ [][Next]_vars

LiveSpec == Init /\ [][Next]_vars /\ WF_vars(EngineStep)

----------------------------------------------------------------------------
(* matches_pattern on its own, over all short strings *)

\* a string is a sequence of characters
Alphabet == {"h", "/", "d", "x"}

Strings(n) == UNION {[1..k -> Alphabet] : k \in 0..n}

crawl_state == <<config, engine, locals, pc, outcome, history>>

PatternInit ==
  /\ ShellInit
  /\ EngineInit
  /\ site = "e2e"
  /\ arg_url \in Strings(MaxUrlLen)
  /\ arg_pattern \in Strings(MaxPatLen)
  /\ ret = <<>>

CallMatchesPattern ==
  /\ ret = <<>>
  /\ ret' = <<matches_pattern(arg_url, arg_pattern)>>
  /\ UNCHANGED <<arg_url, arg_pattern, shell, crawl_state>>

PatternNext == CallMatchesPattern

PatternSpec == PatternInit /\ [][PatternNext]_vars

----------------------------------------------------------------------------
(* The control surface of the shell, CrawlerGUI.  A CrawlerThread is        *)
(* "running" while its run() executes crawl(), "emitted" once run() has     *)
(* emitted finished_signal, and "finished" once the slot crawler_finished   *)
(* has handled that signal in the GUI thread.                               *)

crawler_thread == Len(threads)

GuiInit ==
  /\ ShellInit
  /\ NoCall
  /\ EngineInit
  /\ site = "e2e"

\* a click on Start: start_crawler
start_crawler ==
  /\ start_button
  /\ Len(threads) < MaxThreads
  /\ \E text \in StartUrls : text # <<>>
  /\ threads' = Append(threads, [state |-> "running", stop |-> FALSE])
  /\ start_button' = FALSE
  /\ stop_button' = TRUE
  /\ UNCHANGED <<call, crawl_state>>

\* a click on Stop: stop_crawler, CrawlerThread.stop
stop_crawler ==
  /\ stop_button
  /\ crawler_thread # 0
  /\ threads' = [threads EXCEPT ![crawler_thread].stop = TRUE]
  /\ start_button' = TRUE
  /\ stop_button' = FALSE
  /\ UNCHANGED <<call, crawl_state>>

\* CrawlerThread.run returns: crawl() has ended, finished_signal is emitted
ThreadRunEnds ==
  /\ \E i \in DOMAIN threads :
       /\ threads[i].state = "running"
       /\ threads' = [threads EXCEPT ![i].state = "emitted"]
  /\ UNCHANGED <<start_button, stop_button, call, crawl_state>>

\* the slot connected to finished_signal
crawler_finished ==
  /\ \E i \in DOMAIN threads :
       /\ threads[i].state = "emitted"
       /\ threads' = [threads EXCEPT ![i].state = "finished"]
  /\ start_button' = TRUE
  /\ stop_button' = FALSE
  /\ UNCHANGED <<call, crawl_state>>

GuiNext ==
  \/ start_crawler
  \/ stop_crawler
  \/ ThreadRunEnds
  \/ crawler_finished

GuiSpec == GuiInit /\ [][GuiNext]_vars

----------------------------------------------------------------------------
(* Properties *)

InRun == pc \notin {"idle", "starting"}

IsPageFetch(e) == e.kind = "page"

IsRecorded(e) == e.kind = "page" /\ e.res # "goto_error"

PageFetches == SelectSeq(fetchLog, IsPageFetch)

RecordedFetches == SelectSeq(fetchLog, IsRecorded)

\* nothing failed in this run: no fetch, no extraction, no write, no browser
NothingFailed == faults = 0 /\ failure = "none"

Urls(records) == [i \in DOMAIN records |-> records[i].url]

UrlSet(records) == {records[i].url : i \in DOMAIN records}

\* C1: no two page fetches issued by the main loop of one run target URLs
\* that are equal after normalization (fragment stripped).
C1_NormalizedFetchedOnce ==
  \A i, j \in DOMAIN PageFetches :
    i # j => StripFragment(PageFetches[i].url) # StripFragment(PageFetches[j].url)

\* C2: from the reset of a run on, the number of visited URLs and the number
\* of PageRecords are both at most max_pages.
C2_PageCap ==
  InRun => /\ Cardinality(visited_urls) <= max_pages
           /\ Len(results) <= max_pages

C2_Witness ==
  /\ pc = "loop"
  /\ max_pages >= 2
  /\ Cardinality(visited_urls) = max_pages
  /\ Len(results) = max_pages
  /\ urls_to_visit # {}

\* C3: every URL in the frontier other than the seed has the seed's host.
C3_FrontierSameHost ==
  pc \in {"loop", "page"} =>
    \A u \in urls_to_visit : u = start_url \/ netloc(u) = netloc(start_url)

C3_Witness ==
  /\ pc = "loop"
  /\ \E i \in DOMAIN fetchLog :
       /\ fetchLog[i].kind = "page"
       /\ fetchLog[i].res = "ok"
       /\ \E l \in Links(site, fetchLog[i].url) : netloc(l) # netloc(start_url)
       /\ \E l \in Links(site, fetchLog[i].url) : l \in urls_to_visit

\* C4: once stop() has been called on a started crawl, no further page fetch
\* is begun by the main loop.
C4_NoFetchAfterStop == lateFetches = 0

\* C5: on the site with 5 eligible pages, with max_pages >= 5 and nothing
\* failing, a stop() issued while the fetch of the 2nd page is in flight ends
\* the run Stopped with exactly 2 PageRecords, written as the artifact, and no
\* third page fetched.
C5_StopScenario ==
  (/\ pc = "done"
   /\ site = "five"
   /\ max_pages >= 5
   /\ NothingFailed
   /\ stopAt = <<"page", 2>>)
  => /\ Len(results) = 2
     /\ Len(PageFetches) = 2
     /\ outcome = "Stopped"
     /\ written = <<results>>

C5_Witness ==
  /\ pc = "done"
  /\ site = "five"
  /\ max_pages >= 5
  /\ NothingFailed
  /\ stopAt = <<"page", 2>>
  /\ Len(results) = 2
  /\ urls_to_visit # {}

\* C6: seed and pattern https://example.com/docs/, max_pages = 3, the seed
\* linking to two docs pages, an external page and an out-of-pattern page,
\* nothing failing and no stop: the run ends Completed with exactly three
\* PageRecords, for the seed and the two docs pages, in every pop order, and
\* the external and out-of-pattern URLs are never recorded.
C6_EndToEnd ==
  (site = "e2e" /\ url_pattern = Seed /\ max_pages = 3 /\ InRun)
  => /\ \A i \in DOMAIN results : results[i].url \notin {Ext, Blog}
     /\ (pc = "done" /\ NothingFailed /\ ~stopRequested)
        => /\ outcome = "Completed"
           /\ Len(results) = 3
           /\ UrlSet(results) = {Seed, D1, D2}
           /\ written = <<results>>

C6_Witness ==
  /\ site = "e2e" /\ url_pattern = Seed /\ max_pages = 3
  /\ pc = "done" /\ NothingFailed /\ ~stopRequested
  /\ Urls(results) = <<Seed, D2, D1>>
  /\ Blog \notin urls_to_visit

\* C7: every started run eventually reaches a terminal outcome.
C7_Terminates ==
  (pc = "starting") ~> (pc = "done" /\ outcome \in {"Completed", "Stopped", "Failed"})

C7_Witness ==
  /\ pc = "done"
  /\ outcome = "Completed"
  /\ Len(PageFetches) = 5
  /\ faults = 1

\* C8: a fetch failure is never fatal: a run in which nothing but fetches
\* failed ends Completed or Stopped with its artifact written.
C8_FetchFailureNotFatal ==
  (pc = "done" /\ failure \notin {"init_browser", "new_page", "invalid_url", "write"})
  => /\ outcome \in {"Completed", "Stopped"}
     /\ Len(written) = 1

\* C9: a run that ends Completed or Stopped has written its artifact exactly
\* once, with the PageRecords accumulated by the loop in processing order,
\* and nothing is written before the loop has exited.
C9_ArtifactWrittenOnce ==
  /\ (pc = "done" /\ outcome \in {"Completed", "Stopped"})
     => /\ written = <<results>>
        /\ Urls(written[1]) = Urls(RecordedFetches)
  /\ pc \in {"init", "probe", "loop", "page", "write"} => written = <<>>

C9_Witness ==
  /\ pc = "done"
  /\ outcome = "Stopped"
  /\ Len(written) = 1
  /\ Len(written[1]) = 2
  /\ Len(PageFetches) = 3

\* C10: in every terminal state of crawl() no browser is left open.
C10_BrowserReleased == pc = "done" => browser # "open"

C10_Witness ==
  /\ pc = "done"
  /\ outcome = "Failed"
  /\ failure = "write"
  /\ browser = "closed"
  /\ Len(results) >= 1

\* C11: every start performs a clean crawl from the seed, also on an engine
\* whose previous run has ended: a run with a valid seed in which no fetch,
\* extraction, write or browser launch fails has fetched the seed and ends
\* without failure.
C11_CleanRestart ==
  (pc = "done" /\ IsAbsolute(start_url) /\ faults = 0)
  => /\ failure = "none"
     /\ fetchLog # <<>>
     /\ fetchLog[1].url = start_url

\* C13: a start request whose seed URL is empty or not absolute issues no
\* fetch and does not initialize the browser.
C13_InvalidSeedRejected ==
  (InRun /\ ~IsAbsolute(start_url)) => (browser # "open" /\ fetchLog = <<>>)

\* the words of the elements of a document that a remove selector matches
RECURSIVE ExcludedWords(_, _, _)
ExcludedWords(dom, rem, inside) ==
  IF dom = <<>> THEN {}
  ELSE LET el == Head(dom)
           out == inside \/ \E i \in DOMAIN rem : rem[i] = el.tag
       IN (IF out THEN {el.text[i] : i \in DOMAIN el.text} ELSE {})
          \cup ExcludedWords(el.kids, rem, out)
          \cup ExcludedWords(Tail(dom), rem, inside)

\* C12: with a non-empty list of remove selectors, no word of an element
\* matched by a remove selector occurs in the content of a PageRecord.
C12_ExclusionsRemoved ==
  (InRun /\ remove_selectors # <<>>)
  => \A i \in DOMAIN results :
       \A j \in DOMAIN results[i].content :
         \/ IsSpace(results[i].content[j])
         \/ results[i].content[j] \notin
              ExcludedWords(PageDom(results[i].url), remove_selectors, FALSE)

\* the reference predicate: pattern is empty, or url starts with pattern
RefMatches(u, p) ==
  p = <<>> \/ (Len(p) <= Len(u) /\ \A i \in 1..Len(p) : u[i] = p[i])

Returned(u, p, r) == arg_url = u /\ arg_pattern = p /\ ret = <<r>>

\* C14: matches_pattern(url, pattern) is the reference predicate; it is true
\* for the empty pattern, false for (h/x, h/d), true for (h/d/x, h/d), and a
\* trailing slash on the pattern alone changes the result.
C14_MatchesPattern ==
  ret # <<>> =>
    /\ ret[1] = RefMatches(arg_url, arg_pattern)
    /\ arg_pattern = <<>> => ret[1]
    /\ (arg_url = <<"h", "/", "x">> /\ arg_pattern = <<"h", "/", "d">>) => ~ret[1]
    /\ (arg_url = <<"h", "/", "d", "/", "x">> /\ arg_pattern = <<"h", "/", "d">>) => ret[1]
    /\ (arg_url = <<"h", "/", "d">> /\ arg_pattern = <<"h", "/", "d">>) => ret[1]
    /\ (arg_url = <<"h", "/", "d">> /\ arg_pattern = <<"h", "/", "d", "/">>) => ~ret[1]
    /\ (arg_url = <<"h", "/">> /\ arg_pattern = <<"h">>) => ret[1]
    /\ (arg_url = <<"h">> /\ arg_pattern = <<"h", "/">>) => ~ret[1]

C14_Witness == Returned(<<"h", "/", "d", "/", "x">>, <<"h", "/", "d">>, TRUE)

LastFetch == fetchLog[Len(fetchLog)]

\* C15: in every state of the main loop no URL is both in the frontier and in
\* the visited set.
C15_FrontierVisitedDisjoint ==
  pc \in {"loop", "page"} => urls_to_visit \cap visited_urls = {}

C15_Witness ==
  /\ pc = "loop"
  /\ urls_to_visit # {}
  /\ fetchLog # <<>>
  /\ LastFetch.kind = "page"
  /\ LastFetch.res = "ok"
  /\ Links(site, LastFetch.url) \cap (visited_urls \ {LastFetch.url}) # {}

IsOk(e) == e.kind = "page" /\ e.res = "ok"

OkFetches == SelectSeq(fetchLog, IsOk)

InFlight == IF pc = "page" THEN 1 ELSE 0

\* the links of the pages crawl_page has returned links for
LinksReturned ==
  UNION {filtered_links(fetchLog[i].url, Links(site, fetchLog[i].url)) :
           i \in {j \in DOMAIN fetchLog : fetchLog[j].kind = "page"
                                         /\ fetchLog[j].res \in {"ok", "extract_error"}}}

\* C16, as claimed: the records never outnumber the visited URLs and any
\* error inside the per-page operation leaves the result list unchanged, so
\* the records are those of the pages fetched without any error.
C16_AnyErrorLeavesNoRecord ==
  InRun => /\ Len(results) <= Cardinality(visited_urls)
           /\ Urls(results) = Urls(OkFetches)

\* C16, amended: a URL whose navigation or title fetch fails is visited, is
\* not recorded, contributes no links, is not fetched again and counts
\* toward max_pages; a page whose extraction or link collection fails still
\* leaves one record: the records are those of the page fetches whose goto
\* and title succeeded, in order, and never outnumber the visited URLs.
C16_FailedFetchSkipped ==
  InRun =>
    /\ Len(results) <= Cardinality(visited_urls)
    /\ Urls(results) = Urls(RecordedFetches)
    /\ \A i \in DOMAIN PageFetches : PageFetches[i].url \in visited_urls
    /\ \A i, j \in DOMAIN PageFetches :
         i # j => PageFetches[i].url # PageFetches[j].url
    /\ Cardinality(visited_urls) = Len(PageFetches) + InFlight
    /\ pc \in {"loop", "page"} =>
         urls_to_visit \cup visited_urls \subseteq {start_url} \cup LinksReturned

C16_Witness ==
  /\ pc = "write"
  /\ LastFetch.kind = "page"
  /\ LastFetch.res = "goto_error"
  /\ Links(site, LastFetch.url) # {}
  /\ Cardinality(visited_urls) = max_pages
  /\ Len(results) = max_pages - 1
  /\ Len(results) >= 1
  /\ urls_to_visit # {}

\* C17: a popped URL that fails matches_pattern is not visited, not fetched,
\* not recorded and does not count toward max_pages: everything visited,
\* fetched or recorded matches the pattern, and the visited count is the
\* number of page fetches.
C17_PatternSkipHasNoEffect ==
  InRun =>
    /\ \A u \in visited_urls : matches_pattern(u, url_pattern)
    /\ \A i \in DOMAIN PageFetches : matches_pattern(PageFetches[i].url, url_pattern)
    /\ \A i \in DOMAIN results : matches_pattern(results[i].url, url_pattern)
    /\ Cardinality(visited_urls) = Len(PageFetches) + InFlight

C17_Witness ==
  /\ site = "e2e"
  /\ url_pattern = Seed
  /\ pc = "loop"
  /\ Len(fetchLog) = 3
  /\ fetchLog[2].res = "ok"
  /\ LastFetch.res = "ok"
  /\ LastFetch.url = D1
  /\ Blog \notin urls_to_visit
  /\ Blog \notin visited_urls
  /\ Cardinality(visited_urls) = 2
  /\ max_pages = 3

\* C18: when the extraction of a fetched page fails, crawl_page still appends
\* the page's record, with the diagnostic string as content, still offers
\* the page's same-domain links to the frontier, and the loop goes on.
C18_ExtractionErrorRecorded ==
  [][(pc = "page" /\ pc' # "page" /\ LastFetch'.res = "extract_error")
     => /\ results' = Append(results, PageRecord(url, ErrorContent))
        /\ filtered_links(url, Links(site, url)) \subseteq urls_to_visit' \cup visited_urls'
        /\ pc' = "loop"
        /\ outcome' = "none"]_vars

C18_Witness ==
  /\ pc = "loop"
  /\ LastFetch.kind = "page"
  /\ LastFetch.res = "extract_error"
  /\ results[Len(results)].content = ErrorContent
  /\ filtered_links(LastFetch.url, Links(site, LastFetch.url)) \cap urls_to_visit # {}
  /\ Len(results) >= 2

\* C19: the first fetch of a run is the title fetch of the seed, which leaves
\* the visited set and the result list empty and puts nothing but the seed
\* in the frontier; the first page the loop fetches is the seed again, and
\* when that fetch succeeds the first PageRecord is the seed's.
C19_SeedFetchedTwice ==
  (InRun /\ fetchLog # <<>>) =>
    /\ fetchLog[1].kind = "probe"
    /\ fetchLog[1].url = start_url
    /\ \A i \in 2..Len(fetchLog) : fetchLog[i].kind = "page"
    /\ (Len(fetchLog) = 1 /\ pc \in {"loop", "page"})
       => /\ results = <<>>
          /\ visited_urls \subseteq {start_url}
          /\ urls_to_visit \subseteq {start_url}
          /\ (visited_urls = {} /\ urls_to_visit = {}) => ~matches_pattern(start_url, url_pattern)
    /\ Len(fetchLog) >= 2
       => /\ fetchLog[2].url = start_url
          /\ matches_pattern(start_url, url_pattern)
          /\ fetchLog[2].res # "goto_error" => results[1].url = start_url

C19_Witness ==
  /\ pc = "loop"
  /\ Len(fetchLog) = 3
  /\ fetchLog[1].res = "ok"
  /\ fetchLog[2].res = "ok"
  /\ fetchLog[3].url # start_url
  /\ results[1].url = start_url
  /\ Len(results) = 2

RunningThreads == {i \in DOMAIN threads : threads[i].state = "running"}

\* C20: at most one crawler thread is running at any time, and while the
\* most recently started thread is running without a stop request the Stop
\* button is enabled.
C20_OneRunControlsTrack ==
  /\ Cardinality(RunningThreads) <= 1
  /\ (crawler_thread # 0
      /\ threads[crawler_thread].state = "running"
      /\ ~threads[crawler_thread].stop) => stop_button
====
